---- MODULE Spec2Model ----
(***************************************************************************)
(* Order-fulfilment core of the legacy storefront: the inventory ledger    *)
(* (services/inventoryService.js), the order routes (routes/orders.js),    *)
(* the payment routes (routes/payments.js) and the admin inventory edit    *)
(* (routes/inventory.js), over one shared sqlite connection.               *)
(*                                                                         *)
(* Every db.get / db.run / db.all statement is one atomic step; the       *)
(* callback that receives its result runs later on the event loop, so the *)
(* statements of concurrently served requests and of concurrently pending *)
(* updateInventory calls interleave between a read and the write that      *)
(* follows it.                                                             *)
(***************************************************************************)
EXTENDS Integers, Sequences, FiniteSets, Bags, TLC

\* ---------------------------------------------------------------- bounds
MaxStock == 2        \* largest initial / admin-entered quantity
MaxItemQty == 2      \* largest quantity of one order line
MaxLines == 2        \* most lines in one order request
MaxOrders == 2       \* most order rows ever inserted
MaxRequests == 3     \* most HTTP requests served in one behaviour
MaxCalls == 3        \* most direct updateInventory calls in one behaviour
MaxRefund == 2       \* largest explicit refund amount requested
MaxInFlight == 2     \* most HTTP requests in flight at once
MaxPending == 2      \* most updateInventory calls in flight once a route has issued its own
MaxPrice == 3
MaxBatches == 2

\* ------------------------------------------------------------- catalogue
Products == {"A", "B"}
UnknownProduct == "Z"            \* a product id with no products/inventory row
DefaultReorderLevel == 1          \* reorder_level entered with every product
Operations == {"reserve", "release", "sell", "restock", "adjust"}
validStatuses == {"pending", "confirmed", "processing", "shipped", "delivered", "cancelled"}

VARIABLES
  products,      \* products table: id -> [price, is_active]
  inventory,     \* inventory table: product_id -> [quantity, reserved_quantity, reorder_level]
  orders,        \* orders table with its order_items: id (index) -> row
  payments,      \* payments table: id (index) -> row
  txn,           \* open transaction of the connection: <<>> or <<snapshot at BEGIN>>
  reqs,          \* HTTP requests in flight (closures waiting for a db callback)
  calls,         \* updateInventory calls in flight
  settled,       \* how the calls and requests whose caller looks at the outcome ended
  nreq,          \* requests / calls started so far
  notifications, \* notifications table: bag of [user_id, type, about]
  audit_logs,    \* audit_logs table: bag of [table_name, record_id, action, old_values, new_values]
  insertFails,   \* the INSERTs into notifications and audit_logs fail
  initial,       \* the inventory table at the start (history)
  stocked        \* per product: units ever physically stocked (history)

vars == <<products, inventory, orders, payments, txn, reqs, calls, settled,
          nreq, notifications, audit_logs, insertFails, initial, stocked>>

\* ------------------------------------------------------------ arithmetic
Abs(x) == IF x < 0 THEN -x ELSE x
Min(a, b) == IF a < b THEN a ELSE b
Max(a, b) == IF a > b THEN a ELSE b

\* --------------------------------------------------------- notifications
\* The user an order belongs to, and the only user with role admin.
Customer == "customer"
Admin == "admin"

\* sendNotification(userId, type, ...): INSERT INTO notifications, for the
\* user given or, when none is given, for every active admin.
sendNotificationTo(bag, userId, type, about) ==
  IF insertFails THEN bag
  ELSE bag (+) SetToBag({[user_id |-> IF userId = "" THEN Admin ELSE userId,
                         type |-> type, about |-> about]})

sendNotification(userId, type, about) == sendNotificationTo(notifications, userId, type, about)

\* logActivity(tableName, recordId, action, oldValues, newValues, userId):
\* INSERT INTO audit_logs; of the old and new values only the order status
\* they carry is kept ("" when they carry none). A failing INSERT is logged
\* to the console and nothing else happens.
logActivity(tableName, recordId, action, oldValues, newValues) ==
  IF insertFails THEN audit_logs
  ELSE audit_logs (+) SetToBag({[table_name |-> tableName, record_id |-> recordId,
                                action |-> action, old_values |-> oldValues,
                                new_values |-> newValues]})

\* Alerts with a low-stock alert on every write at or below the reorder
\* level, whatever the quantity was before.
sendAlertsAtOrBelow(inv, productId, operation, newQuantity) ==
  LET low == IF newQuantity <= inv.reorder_level
             THEN sendNotificationTo(notifications, "", "low_stock_alert", productId)
             ELSE notifications
      out == IF newQuantity = 0 /\ inv.quantity > 0
             THEN sendNotificationTo(low, "", "out_of_stock_alert", productId)
             ELSE low
  IN  IF operation = "restock" /\ inv.quantity <= inv.reorder_level
      THEN sendNotificationTo(out, "", "restock_alert", productId)
      ELSE out

\* The stock alerts updateInventory sends after its UPDATE, decided on the
\* row it had read (inv) and the quantity it wrote.
sendAlerts(inv, productId, operation, newQuantity) ==
  LET low == IF newQuantity <= inv.reorder_level /\ inv.quantity > inv.reorder_level
             THEN sendNotificationTo(notifications, "", "low_stock_alert", productId)
             ELSE notifications
      out == IF newQuantity = 0 /\ inv.quantity > 0
             THEN sendNotificationTo(low, "", "out_of_stock_alert", productId)
             ELSE low
  IN  IF operation = "restock" /\ inv.quantity <= inv.reorder_level
      THEN sendNotificationTo(out, "", "restock_alert", productId)
      ELSE out

\* ------------------------------------------------------ inventory ledger
\* What the switch of updateInventory leaves for its UPDATE: the values to
\* write, or the error the promise is rejected with (nothing is written).
Rejected(inv, error) ==
  [error |-> error, newQuantity |-> inv.quantity, newReservedQuantity |-> inv.reserved_quantity]

Computed(newQuantity, newReservedQuantity) ==
  [error |-> "", newQuantity |-> newQuantity, newReservedQuantity |-> newReservedQuantity]

\* A reserve that tests the stock quantity instead of what is available.
caseReserveOnQuantity(inv, quantityChange) ==
  IF inv.quantity < Abs(quantityChange)
  THEN Rejected(inv, "Insufficient available inventory")
  ELSE Computed(inv.quantity, inv.reserved_quantity + Abs(quantityChange))

\* case 'reserve'
caseReserve(inv, quantityChange) ==
  LET availableQuantity == inv.quantity - inv.reserved_quantity
  IN  IF availableQuantity < Abs(quantityChange)
      THEN Rejected(inv, "Insufficient available inventory")
      ELSE Computed(inv.quantity, inv.reserved_quantity + Abs(quantityChange))

\* A release that drops every reservation of the product.
caseReleaseAll(inv, quantityChange) == Computed(inv.quantity, 0)

\* A release without the clamp at 0.
caseReleaseUnclamped(inv, quantityChange) ==
  Computed(inv.quantity, inv.reserved_quantity - Abs(quantityChange))

\* case 'release'
caseRelease(inv, quantityChange) ==
  Computed(inv.quantity, Max(0, inv.reserved_quantity - Abs(quantityChange)))

\* A sell that only takes unreserved stock and keeps the reservation.
caseSellKeepingReserved(inv, quantityChange) ==
  LET newQuantity == inv.quantity - Abs(quantityChange)
  IN  IF newQuantity < 0
      THEN Rejected(inv, "Insufficient inventory to sell")
      ELSE Computed(newQuantity, inv.reserved_quantity)

\* case 'sell'
caseSell(inv, quantityChange) ==
  LET reservedToSell == Min(inv.reserved_quantity, Abs(quantityChange))
      newQuantity == inv.quantity - Abs(quantityChange)
  IN  IF newQuantity < 0
      THEN Rejected(inv, "Insufficient inventory to sell")
      ELSE Computed(newQuantity, inv.reserved_quantity - reservedToSell)

\* case 'restock'
caseRestock(inv, quantityChange) ==
  Computed(inv.quantity + Abs(quantityChange), inv.reserved_quantity)

\* An adjust that drops the sign of the change.
caseAdjustUnsigned(inv, quantityChange) ==
  Computed(inv.quantity + Abs(quantityChange), inv.reserved_quantity)

\* case 'adjust'
caseAdjust(inv, quantityChange) ==
  LET newQuantity == inv.quantity + quantityChange
  IN  IF newQuantity < 0
      THEN Rejected(inv, "Adjustment would result in negative inventory")
      ELSE Computed(newQuantity, inv.reserved_quantity)

\* The switch of updateInventory on the row it read.
updateInventorySwitch(inv, quantityChange, operation) ==
  CASE operation = "reserve" -> caseReserve(inv, quantityChange)
    [] operation = "release" -> caseRelease(inv, quantityChange)
    [] operation = "sell" -> caseSell(inv, quantityChange)
    [] operation = "restock" -> caseRestock(inv, quantityChange)
    [] operation = "adjust" -> caseAdjust(inv, quantityChange)
    [] OTHER -> Rejected(inv, "Invalid operation type")

\* A fresh updateInventory call: its db.get is queued, nothing is read yet.
\* route is the call site ("post", "status", "cancel" in the order routes,
\* "direct" for a caller that keeps the promise); orderStatus is the status
\* of the order row that call site had read ("" when it read none).
NewCall(id, idx, productId, quantityChange, operation, route, orderStatus) ==
  [id |-> id, idx |-> idx, productId |-> productId, quantityChange |-> quantityChange,
   operation |-> operation, route |-> route, orderStatus |-> orderStatus,
   pc |-> "get", inventory |-> <<>>, newQuantity |-> 0, newReservedQuantity |-> 0]

\* A promise that is rejected when the INSERT of the audit entry or of a
\* notification fails after the UPDATE.
SettleUnlessInsertFails(c, outcome) ==
  IF c.route = "direct"
  THEN settled \cup {[id |-> c.id, productId |-> c.productId,
                      quantityChange |-> c.quantityChange, operation |-> c.operation,
                      outcome |-> IF insertFails /\ outcome = "success"
                                  THEN "Failed to record the update" ELSE outcome]}
  ELSE settled

\* The promise of a call settles; only a direct caller looks at the outcome
\* (the order routes drop the promise).
Settle(c, outcome) ==
  IF c.route = "direct"
  THEN settled \cup {[id |-> c.id, productId |-> c.productId,
                      quantityChange |-> c.quantityChange, operation |-> c.operation,
                      outcome |-> outcome]}
  ELSE settled

\* The units a write adds to physical stock (0 when it lowers it).
StockedBy(productId, newQuantity) ==
  [stocked EXCEPT ![productId] = @ + Max(0, newQuantity - inventory[productId].quantity)]

\* A lookup that makes up an empty record for a product that has none.
SelectInventoryOrEmpty(productId) ==
  IF productId \in DOMAIN inventory THEN <<inventory[productId]>>
  ELSE <<[quantity |-> 0, reserved_quantity |-> 0, reorder_level |-> 0]>>

\* SELECT i.* FROM inventory i ... WHERE i.product_id = ?: the row, if any.
SelectInventory(productId) ==
  IF productId \in DOMAIN inventory THEN <<inventory[productId]>> ELSE <<>>

\* updateInventory, first statement: SELECT the row, run the switch in the
\* callback and either reject or queue the UPDATE with the computed values.
updateInventoryGet(c) ==
  /\ c \in calls /\ c.pc = "get"
  /\ IF SelectInventory(c.productId) = <<>>
     THEN /\ calls' = calls \ {c}
          /\ settled' = Settle(c, "Inventory record not found")
     ELSE LET inv == SelectInventory(c.productId)[1]
              r == updateInventorySwitch(inv, c.quantityChange, c.operation)
          IN  IF r.error # ""
              THEN /\ calls' = calls \ {c}
                   /\ settled' = Settle(c, r.error)
              ELSE /\ calls' = (calls \ {c}) \cup
                         {[c EXCEPT !.pc = "run", !.inventory = <<inv>>,
                                    !.newQuantity = r.newQuantity,
                                    !.newReservedQuantity = r.newReservedQuantity]}
                   /\ settled' = settled
  /\ UNCHANGED <<products, inventory, orders, payments, txn, reqs, nreq, initial, stocked, notifications, audit_logs, insertFails>>

\* updateInventory, second statement: UPDATE inventory SET quantity = ?,
\* reserved_quantity = ? with the values computed from the earlier read.
updateInventoryRun(c) ==
  /\ c \in calls /\ c.pc = "run"
  /\ inventory' = [inventory EXCEPT ![c.productId] =
                     [@ EXCEPT !.quantity = c.newQuantity,
                               !.reserved_quantity = c.newReservedQuantity]]
  /\ stocked' = StockedBy(c.productId, c.newQuantity)
  /\ calls' = calls \ {c}
  /\ settled' = Settle(c, "success")
  /\ notifications' = sendAlerts(c.inventory[1], c.productId, c.operation, c.newQuantity)
  /\ audit_logs' = IF c.route = "direct"
                  THEN logActivity("inventory", c.productId, "UPDATE", "", "")
                  ELSE audit_logs
  /\ UNCHANGED <<products, orders, payments, txn, reqs, nreq, initial, insertFails>>

\* A caller of the exported updateInventory(productId, quantityChange, operation).
callUpdateInventory(productId, quantityChange, operation) ==
  /\ nreq < MaxCalls
  /\ nreq' = nreq + 1
  /\ calls' = calls \cup {NewCall(nreq + 1, 1, productId, quantityChange, operation, "direct", "")}
  /\ UNCHANGED <<products, inventory, orders, payments, txn, reqs, settled, initial, stocked, notifications, audit_logs, insertFails>>

\* ------------------------------------------------ the shared connection
\* What a ROLLBACK restores: the tables as they were at BEGIN.
Snapshot ==
  [inventory |-> inventory, orders |-> orders, payments |-> payments,
   notifications |-> notifications, audit_logs |-> audit_logs, stocked |-> stocked]

\* BEGIN TRANSACTION: opens a transaction unless one is already open on the
\* connection (then the statement fails and its error is dropped).
Begin(t) == IF t = <<>> THEN <<Snapshot>> ELSE t

\* ---------------------------------------------------------- HTTP requests
NewReq(id, kind, pc) ==
  [id |-> id, kind |-> kind, pc |-> pc, orderId |-> 0, status |-> "", items |-> <<>>,
   order |-> <<>>, rows |-> <<>>, paymentId |-> 0, payment |-> <<>>, amount |-> 0,
   verdict |-> ""]

Item(productId, quantity) == [productId |-> productId, quantity |-> quantity]

\* The item lists of the order requests served: a first line for product A,
\* every further line either one unit of B or the first line again; or a
\* single line for B or for a product id that does not exist.
ItemLists ==
  LET first == {Item("A", q) : q \in 1..MaxItemQty}
  IN  {<<a>> : a \in {Item("B", 1), Item(UnknownProduct, 1)}}
      \cup UNION {{s \in [1..n -> first \cup {Item("B", 1)}] :
                     /\ s[1] \in first
                     /\ \A i \in 2..n : s[i] \in {Item("B", 1), s[1]}}
                 : n \in 1..MaxLines}

RECURSIVE SumSeq(_)
SumSeq(s) == IF s = <<>> THEN 0 ELSE Head(s) + SumSeq(Tail(s))

\* The updateInventory calls a route issues for the lines of an order.
CallsFor(id, items, operation, sign, route, orderStatus) ==
  {NewCall(id, i, items[i].product_id, sign * items[i].quantity, operation, route, orderStatus)
     : i \in 1..Len(items)}

\* SELECT product_id, quantity FROM order_items WHERE order_id = ?
OrderItemsOf(orderId) == IF orderId \in 1..Len(orders) THEN orders[orderId].items ELSE <<>>

\* An UPDATE that also zeroes the total of an order it cancels.
UpdateOrderZeroingTotal(orderId, status, payment_status) ==
  IF orderId \in 1..Len(orders)
  THEN [orders EXCEPT ![orderId] = [@ EXCEPT !.status = status,
                                             !.payment_status = payment_status,
                                             !.total_amount = IF status = "cancelled"
                                                              THEN 0 ELSE @]]
  ELSE orders

\* UPDATE orders SET ... WHERE id = ? (no row, no change)
UpdateOrder(orderId, status, payment_status) ==
  IF orderId \in 1..Len(orders)
  THEN [orders EXCEPT ![orderId] = [@ EXCEPT !.status = status,
                                             !.payment_status = payment_status]]
  ELSE orders

\* POST /orders, first turn: BEGIN TRANSACTION and, serialized behind it, one
\* SELECT per item of the product joined with its stock quantity.
orderPostBegin(items) ==
  /\ nreq < MaxRequests /\ Cardinality(reqs) < MaxInFlight
  /\ Len(orders) + Cardinality({r \in reqs : r.kind = "post"}) < MaxOrders
  /\ nreq' = nreq + 1
  /\ txn' = Begin(txn)
  /\ LET row(i) == IF items[i].productId \in DOMAIN products
                      /\ products[items[i].productId].is_active
                   THEN <<[id |-> items[i].productId,
                           price |-> products[items[i].productId].price,
                           stock_quantity |-> inventory[items[i].productId].quantity]>>
                   ELSE <<>>
     IN reqs' = reqs \cup {[NewReq(nreq + 1, "post", "validate") EXCEPT
                              !.items = items,
                              !.rows = [i \in 1..Len(items) |-> row(i)]]}
  /\ UNCHANGED <<products, inventory, orders, payments, calls, settled, initial, stocked, notifications, audit_logs, insertFails>>

\* The error the validation callback of item i answers with ("" when it passes).
ItemError(r, i) ==
  IF r.rows[i] = <<>> THEN "Product not found"
  ELSE IF r.rows[i][1].stock_quantity < r.items[i].quantity THEN "Insufficient stock"
  ELSE ""

\* What a POST /orders request has done once its validation callbacks have
\* run: every failing item issues its own ROLLBACK and its own 400 answer
\* (no callback looks at hasError before it does); with no failing item the
\* last callback calls createOrder(), which answers 201 once.
SettleCreate(r, failing) ==
  settled \cup {[id |-> r.id, productId |-> "", quantityChange |-> 0, operation |-> "createOrder",
                 outcome |-> IF failing = {} THEN "Order created successfully"
                             ELSE ItemError(r, CHOOSE i \in failing : \A j \in failing : i <= j),
                 responses |-> IF failing = {} THEN 1 ELSE Cardinality(failing),
                 rollbacks |-> Cardinality(failing)]}

\* POST /orders, the validation callbacks and createOrder(): a failing item
\* rolls back and answers 400; when every item passed, the order and its
\* items are inserted, one reserve per item is issued (its result dropped),
\* the transaction is committed and 201 is answered.
orderPostCallbacks(r) ==
  /\ r \in reqs /\ r.kind = "post" /\ r.pc = "validate"
  /\ Cardinality(calls) + Len(r.items) <= MaxPending
  /\ reqs' = reqs \ {r}
  /\ LET n == Len(r.items)
         failing == {i \in 1..n : ItemError(r, i) # ""}
         orderItems == [i \in 1..n |->
                          [product_id |-> r.items[i].productId,
                           quantity |-> r.items[i].quantity,
                           unit_price |-> r.rows[i][1].price,
                           total_price |-> r.rows[i][1].price * r.items[i].quantity]]
         first == CHOOSE i \in failing : \A j \in failing : i <= j
     IN IF failing # {}
        THEN /\ IF txn # <<>>
                THEN /\ inventory' = txn[1].inventory
                     /\ orders' = txn[1].orders
                     /\ payments' = txn[1].payments
                     /\ stocked' = txn[1].stocked
                     /\ notifications' = txn[1].notifications
                     /\ audit_logs' = txn[1].audit_logs
                ELSE UNCHANGED <<inventory, orders, payments, stocked, notifications, audit_logs>>
             /\ txn' = <<>>
             /\ calls' = calls
        ELSE /\ orders' = Append(orders,
                  [status |-> "pending", payment_status |-> "pending",
                   total_amount |-> SumSeq([i \in 1..n |-> orderItems[i].total_price]),
                   items |-> orderItems])
             /\ calls' = calls \cup CallsFor(r.id, orderItems, "reserve", -1, "post", "")
             /\ txn' = <<>>
             /\ notifications' = sendNotification(Customer, "order_created", Len(orders) + 1)
             /\ audit_logs' = logActivity("orders", Len(orders) + 1, "INSERT", "", "")
             /\ UNCHANGED <<inventory, payments, stocked>>
  /\ settled' = SettleCreate(r, {i \in 1..Len(r.items) : ItemError(r, i) # ""})
  /\ UNCHANGED <<products, nreq, initial, insertFails>>

\* PUT /orders/:id/status (admin): the answer given without any write
\* ("" when the route goes on to its UPDATE).
orderStatusRefusal(orderId, status) ==
  IF status \notin validStatuses THEN "Invalid status"
  ELSE IF orderId \notin 1..Len(orders) THEN "Order not found"
  ELSE ""

\* PUT /orders/:id/status, first statement: SELECT the order.
orderStatusGet(orderId, status) ==
  /\ nreq < MaxRequests /\ Cardinality(reqs) < MaxInFlight
  /\ IF orderStatusRefusal(orderId, status) # ""
     THEN UNCHANGED <<reqs, nreq>>
     ELSE /\ nreq' = nreq + 1
          /\ reqs' = reqs \cup {[NewReq(nreq + 1, "status", "run") EXCEPT
                                   !.orderId = orderId, !.status = status,
                                   !.order = <<orders[orderId]>>]}
  /\ UNCHANGED <<products, inventory, orders, payments, txn, calls, settled, initial, stocked, notifications, audit_logs, insertFails>>

\* The ledger calls the status route issues after its UPDATE, decided on the
\* status it is setting and the status of the row it read earlier.
StatusInventoryCalls(r) ==
  IF r.status = "cancelled" /\ r.order[1].status # "cancelled"
  THEN CallsFor(r.id, OrderItemsOf(r.orderId), "release", 1, "status", r.order[1].status)
  ELSE IF r.status = "confirmed" /\ r.order[1].status = "pending"
  THEN CallsFor(r.id, OrderItemsOf(r.orderId), "sell", -1, "status", r.order[1].status)
  ELSE {}

\* PUT /orders/:id/status, second statement: UPDATE the status, then the
\* inventory branch, the audit log, the notification and the answer.
orderStatusRun(r) ==
  /\ r \in reqs /\ r.kind = "status" /\ r.pc = "run"
  /\ Cardinality(calls \cup StatusInventoryCalls(r)) <= MaxPending
  /\ reqs' = reqs \ {r}
  /\ orders' = UpdateOrder(r.orderId, r.status,
                  IF r.orderId \in 1..Len(orders) THEN orders[r.orderId].payment_status ELSE "")
  /\ calls' = calls \cup StatusInventoryCalls(r)
  /\ notifications' = sendNotification(Customer, "order_status_updated", r.orderId)
  /\ audit_logs' = logActivity("orders", r.orderId, "UPDATE", r.order[1].status, r.status)
  /\ UNCHANGED <<products, inventory, payments, txn, settled, nreq, initial, stocked, insertFails>>

\* The cancel route without its test of the status read (an order in any
\* status is cancelled and released again).
orderCancelRefusalAnyStatus(orderId) ==
  IF orderId \notin 1..Len(orders) THEN "Order not found" ELSE ""

\* PUT /orders/:id/cancel: the answer given without any write ("" when the
\* route goes on to its UPDATE): only a pending order is cancelled.
orderCancelRefusal(orderId) ==
  IF orderId \notin 1..Len(orders) THEN "Order not found"
  ELSE IF orders[orderId].status # "pending" THEN "Only pending orders can be cancelled"
  ELSE ""

\* PUT /orders/:id/cancel, first statement: SELECT the order.
orderCancelGet(orderId) ==
  /\ nreq < MaxRequests /\ Cardinality(reqs) < MaxInFlight
  /\ IF orderCancelRefusal(orderId) # ""
     THEN UNCHANGED <<reqs, nreq>>
     ELSE /\ nreq' = nreq + 1
          /\ reqs' = reqs \cup {[NewReq(nreq + 1, "cancel", "run") EXCEPT
                                   !.orderId = orderId, !.order = <<orders[orderId]>>]}
  /\ UNCHANGED <<products, inventory, orders, payments, txn, calls, settled, initial, stocked, notifications, audit_logs, insertFails>>

\* PUT /orders/:id/cancel, second statement: UPDATE status = cancelled, then
\* one release per order item, the audit log and the answer.
orderCancelRun(r) ==
  /\ r \in reqs /\ r.kind = "cancel" /\ r.pc = "run"
  /\ Cardinality(calls) + Len(OrderItemsOf(r.orderId)) <= MaxPending
  /\ reqs' = reqs \ {r}
  /\ orders' = UpdateOrder(r.orderId, "cancelled",
                  IF r.orderId \in 1..Len(orders) THEN orders[r.orderId].payment_status ELSE "")
  /\ calls' = calls \cup CallsFor(r.id, OrderItemsOf(r.orderId), "release", 1,
                                   "cancel", r.order[1].status)
  /\ audit_logs' = logActivity("orders", r.orderId, "UPDATE", r.order[1].status, "cancelled")
  /\ UNCHANGED <<products, inventory, payments, txn, settled, nreq, initial, stocked, notifications, insertFails>>

\* POST /payments/process: the answer given without any write ("" when the
\* order is found with payment_status = "pending").
paymentProcessRefusal(orderId) ==
  IF orderId \notin 1..Len(orders) \/ orders[orderId].payment_status # "pending"
  THEN "Order not found or already paid"
  ELSE ""

\* POST /payments/process, first statement: SELECT the order; then the
\* gateway is called.
paymentProcessGet(orderId) ==
  /\ nreq < MaxRequests /\ Cardinality(reqs) < MaxInFlight
  /\ IF paymentProcessRefusal(orderId) # ""
     THEN UNCHANGED <<reqs, nreq>>
     ELSE /\ nreq' = nreq + 1
          /\ reqs' = reqs \cup {[NewReq(nreq + 1, "process", "gateway") EXCEPT
                                   !.orderId = orderId, !.order = <<orders[orderId]>>]}
  /\ UNCHANGED <<products, inventory, orders, payments, txn, calls, settled, initial, stocked, notifications, audit_logs, insertFails>>

\* POST /payments/process, the gateway's verdict arrives and the payment row
\* is inserted with it.
paymentProcessInsert(r, verdict) ==
  /\ r \in reqs /\ r.kind = "process" /\ r.pc = "gateway"
  /\ payments' = Append(payments, [order_id |-> r.orderId,
                                   amount |-> r.order[1].total_amount,
                                   status |-> verdict])
  /\ reqs' = (reqs \ {r}) \cup {[r EXCEPT !.pc = "update", !.verdict = verdict,
                                          !.paymentId = Len(payments) + 1]}
  /\ UNCHANGED <<products, inventory, orders, txn, calls, settled, nreq, initial, stocked, notifications, audit_logs, insertFails>>

\* The payment status and the order status the charge route writes for the
\* gateway's verdict.
newPaymentStatus(verdict) == IF verdict = "success" THEN "paid" ELSE "failed"

\* A charge route that cancels the order when the charge fails.
newOrderStatusCancelOnFailure(verdict) ==
  IF verdict = "success" THEN "confirmed" ELSE "cancelled"

newOrderStatus(verdict) == IF verdict = "success" THEN "confirmed" ELSE "pending"

\* POST /payments/process, last statement: UPDATE orders SET payment_status,
\* status from the verdict; no ledger call follows.
paymentProcessUpdate(r) ==
  /\ r \in reqs /\ r.kind = "process" /\ r.pc = "update"
  /\ reqs' = reqs \ {r}
  /\ orders' = UpdateOrder(r.orderId, newOrderStatus(r.verdict), newPaymentStatus(r.verdict))
  /\ notifications' = sendNotification(Customer, "payment_processed", r.orderId)
  /\ audit_logs' = logActivity("payments", r.paymentId, "INSERT", "", "")
  /\ UNCHANGED <<products, inventory, payments, txn, calls, settled, nreq, initial, stocked, insertFails>>

\* The amount a refund request is for: the amount given, or the payment's
\* amount when none (0) is given.
RefundAmount(paymentId, amount) ==
  IF amount # 0 THEN amount ELSE payments[paymentId].amount

\* POST /payments/:id/refund (admin): the answer given without any write.
paymentRefundRefusal(paymentId, amount) ==
  IF paymentId \notin 1..Len(payments) \/ payments[paymentId].status # "success"
  THEN "Payment not found or cannot be refunded"
  ELSE IF RefundAmount(paymentId, amount) > payments[paymentId].amount
  THEN "Refund amount cannot exceed original payment amount"
  ELSE ""

\* POST /payments/:id/refund, first statement: SELECT the payment with
\* status = "success"; then the gateway is called.
paymentRefundGet(paymentId, amount) ==
  /\ nreq < MaxRequests /\ Cardinality(reqs) < MaxInFlight
  /\ IF paymentRefundRefusal(paymentId, amount) # ""
     THEN UNCHANGED <<reqs, nreq>>
     ELSE /\ nreq' = nreq + 1
          /\ reqs' = reqs \cup {[NewReq(nreq + 1, "refund", "gateway") EXCEPT
                                   !.paymentId = paymentId,
                                   !.payment = <<payments[paymentId]>>,
                                   !.amount = RefundAmount(paymentId, amount)]}
  /\ UNCHANGED <<products, inventory, orders, payments, txn, calls, settled, initial, stocked, notifications, audit_logs, insertFails>>

\* A refund route that puts the units of a fully refunded order back into
\* the quantity of their products.
paymentRefundInsertRestocking(r, verdict) ==
  /\ r \in reqs /\ r.kind = "refund" /\ r.pc = "gateway"
  /\ reqs' = reqs \ {r}
  /\ LET refund == [order_id |-> r.payment[1].order_id, amount |-> -r.amount,
                    status |-> "refunded"]
         full == r.amount = r.payment[1].amount
         inserted == Append(payments, refund)
     IN /\ payments' = IF full /\ r.paymentId \in 1..Len(payments)
                       THEN [inserted EXCEPT ![r.paymentId] = [@ EXCEPT !.status = "refunded"]]
                       ELSE inserted
        /\ orders' = IF full THEN UpdateOrder(r.payment[1].order_id, "cancelled", "refunded")
                     ELSE orders
        /\ inventory' = IF full
                        THEN [p \in DOMAIN inventory |->
                                LET items == OrderItemsOf(r.payment[1].order_id)
                                IN  [inventory[p] EXCEPT !.quantity = @ + SumSeq(
                                       [i \in 1..Len(items) |->
                                          IF items[i].product_id = p
                                          THEN items[i].quantity ELSE 0])]]
                        ELSE inventory
  /\ notifications' = sendNotification(Customer, "payment_refunded", r.payment[1].order_id)
  /\ audit_logs' = logActivity("payments", Len(payments) + 1, "INSERT", "", "")
  /\ UNCHANGED <<products, txn, calls, settled, nreq, initial, stocked, insertFails>>

\* POST /payments/:id/refund, after the gateway answered (its verdict is not
\* looked at): INSERT the refund row; on a full refund UPDATE the original
\* payment and the order. No ledger call follows.
paymentRefundInsert(r, verdict) ==
  /\ r \in reqs /\ r.kind = "refund" /\ r.pc = "gateway"
  /\ reqs' = reqs \ {r}
  /\ LET refund == [order_id |-> r.payment[1].order_id, amount |-> -r.amount,
                    status |-> "refunded"]
         full == r.amount = r.payment[1].amount
         inserted == Append(payments, refund)
     IN /\ payments' = IF full /\ r.paymentId \in 1..Len(payments)
                       THEN [inserted EXCEPT ![r.paymentId] = [@ EXCEPT !.status = "refunded"]]
                       ELSE inserted
        /\ orders' = IF full THEN UpdateOrder(r.payment[1].order_id, "cancelled", "refunded")
                     ELSE orders
  /\ notifications' = sendNotification(Customer, "payment_refunded", r.payment[1].order_id)
  /\ audit_logs' = logActivity("payments", Len(payments) + 1, "INSERT", "", "")
  /\ UNCHANGED <<products, inventory, txn, calls, settled, nreq, initial, stocked, insertFails>>

\* PUT /inventory/product/:productId (admin) with a quantity in the body:
\* SELECT the row, then UPDATE inventory SET quantity = ? with the given
\* value, the audit log, and a low-stock alert when the quantity given is at
\* or below the reorder level.
inventoryPut(productId, quantity) ==
  /\ nreq < MaxRequests
  /\ IF productId \notin DOMAIN inventory
     THEN UNCHANGED <<inventory, stocked, nreq, notifications, audit_logs>>
     ELSE /\ nreq' = nreq + 1
          /\ inventory' = [inventory EXCEPT ![productId] = [@ EXCEPT !.quantity = quantity]]
          /\ stocked' = StockedBy(productId, quantity)
          /\ audit_logs' = logActivity("inventory", productId, "UPDATE", "", "")
          /\ notifications' = IF quantity <= inventory[productId].reorder_level
                              THEN sendNotification("", "low_stock_alert", productId)
                              ELSE notifications
  /\ UNCHANGED <<products, orders, payments, txn, reqs, calls, settled, initial, insertFails>>

\* ------------------------------------------------- availability checks
\* SELECT i.*, p.name, p.is_active, (i.quantity - i.reserved_quantity) as
\* available_quantity FROM inventory i LEFT JOIN products p ... WHERE
\* i.product_id = ?: the joined row, if any (is_active is NULL, hence falsy,
\* when the product row is missing).
SelectAvailability(productId) ==
  IF productId \in DOMAIN inventory
  THEN <<[quantity |-> inventory[productId].quantity,
          reserved_quantity |-> inventory[productId].reserved_quantity,
          is_active |-> productId \in DOMAIN products /\ products[productId].is_active,
          available_quantity |-> inventory[productId].quantity
                                   - inventory[productId].reserved_quantity]>>
  ELSE <<>>

\* A check that compares the request with the physical quantity.
checkInventoryAvailabilityOnQuantity(productId, requestedQuantity) ==
  LET rows == SelectAvailability(productId)
      base == [productId |-> productId, requestedQuantity |-> requestedQuantity]
  IN  IF rows = <<>>
      THEN base @@ [available |-> FALSE, reason |-> "Product not found"]
      ELSE IF ~rows[1].is_active
      THEN base @@ [available |-> FALSE, reason |-> "Product is not active"]
      ELSE LET isAvailable == rows[1].quantity >= requestedQuantity
           IN  base @@ [available |-> isAvailable,
                        reason |-> IF isAvailable THEN "" ELSE "Insufficient stock"]

\* checkInventoryAvailability: what the promise resolves with ("" is the null
\* reason of an available product).
checkInventoryAvailability(productId, requestedQuantity) ==
  LET rows == SelectAvailability(productId)
      base == [productId |-> productId, requestedQuantity |-> requestedQuantity]
  IN  IF rows = <<>>
      THEN base @@ [available |-> FALSE, reason |-> "Product not found"]
      ELSE IF ~rows[1].is_active
      THEN base @@ [available |-> FALSE, reason |-> "Product is not active"]
      ELSE LET isAvailable == rows[1].available_quantity >= requestedQuantity
           IN  base @@ [available |-> isAvailable,
                        reason |-> IF isAvailable THEN "" ELSE "Insufficient stock"]

\* How a check settles for its caller.
SettleCheck(id, operation, productId, requestedQuantity, outcome, result) ==
  settled \cup {[id |-> id, productId |-> productId, quantityChange |-> requestedQuantity,
                 operation |-> operation, outcome |-> outcome, result |-> result]}

\* A caller of checkInventoryAvailability(productId, requestedQuantity): the
\* SELECT runs and the promise resolves with the result.
callCheckInventoryAvailability(productId, requestedQuantity) ==
  /\ nreq < MaxCalls
  /\ nreq' = nreq + 1
  /\ settled' = SettleCheck(nreq + 1, "check", productId, requestedQuantity, "resolved",
                            <<checkInventoryAvailability(productId, requestedQuantity)>>)
  /\ UNCHANGED <<products, inventory, orders, payments, txn, reqs, calls, initial, stocked, notifications, audit_logs, insertFails>>

\* The item lists handed to the bulk check.
CheckLists ==
  LET item == {Item("A", q) : q \in 1..MaxItemQty} \cup {Item("B", 1), Item(UnknownProduct, 1)}
  IN  UNION {[1..n -> item] : n \in 0..MaxLines}

\* What the bulk check resolves with once every single check has resolved.
bulkResult(results) ==
  LET unavailableItems == SelectSeq(results, LAMBDA x : ~x.available)
  IN  [allAvailable |-> Len(unavailableItems) = 0, results |-> results]

\* bulkCheckInventoryAvailability(items): an empty list is rejected; otherwise
\* one check per item is started.
bulkCheckBegin(items) ==
  /\ nreq < MaxCalls /\ Cardinality(reqs) < MaxInFlight
  /\ nreq' = nreq + 1
  /\ IF Len(items) = 0
     THEN /\ settled' = SettleCheck(nreq + 1, "bulkCheck", "", 0, "Items array is required", <<>>)
          /\ reqs' = reqs
     ELSE /\ reqs' = reqs \cup {[NewReq(nreq + 1, "bulkCheck", "check") EXCEPT !.items = items]}
          /\ settled' = settled
  /\ UNCHANGED <<products, inventory, orders, payments, txn, calls, initial, stocked, notifications, audit_logs, insertFails>>

\* The SELECT of the next item of a bulk check runs; after the last one
\* Promise.all resolves with the results in the order of the items.
bulkCheckStep(r) ==
  /\ r \in reqs /\ r.kind = "bulkCheck" /\ r.pc = "check"
  /\ LET i == Len(r.rows) + 1
         results == Append(r.rows,
                      checkInventoryAvailability(r.items[i].productId, r.items[i].quantity))
     IN IF i = Len(r.items)
        THEN /\ reqs' = reqs \ {r}
             /\ settled' = SettleCheck(r.id, "bulkCheck", "", 0, "resolved",
                                       <<bulkResult(results)>>)
        ELSE /\ reqs' = (reqs \ {r}) \cup {[r EXCEPT !.rows = results]}
             /\ settled' = settled
  /\ UNCHANGED <<products, inventory, orders, payments, txn, calls, nreq, initial, stocked, notifications, audit_logs, insertFails>>

\* ------------------------------------------------------------- products
\* DELETE /products/:id (admin): SELECT the product, then the soft delete
\* UPDATE products SET is_active = 0 and the audit log.
productDelete(productId) ==
  /\ nreq < MaxRequests
  /\ IF productId \notin DOMAIN products
     THEN UNCHANGED <<products, nreq, audit_logs>>
     ELSE /\ nreq' = nreq + 1
          /\ products' = [products EXCEPT ![productId] = [@ EXCEPT !.is_active = FALSE]]
          /\ audit_logs' = logActivity("products", productId, "DELETE", "", "")
  /\ UNCHANGED <<inventory, orders, payments, txn, reqs, calls, settled, initial, stocked, notifications, insertFails>>

\* A price update that also reprices the items of the orders already placed.
productPutRepricing(productId, price) ==
  /\ nreq < MaxRequests
  /\ IF productId \notin DOMAIN products
     THEN UNCHANGED <<products, orders, nreq, audit_logs>>
     ELSE /\ nreq' = nreq + 1
          /\ products' = [products EXCEPT ![productId] = [@ EXCEPT !.price = price]]
          /\ orders' = [o \in 1..Len(orders) |->
               LET items == [i \in 1..Len(orders[o].items) |->
                               IF orders[o].items[i].product_id = productId
                               THEN [orders[o].items[i] EXCEPT
                                       !.unit_price = price,
                                       !.total_price = price * orders[o].items[i].quantity]
                               ELSE orders[o].items[i]]
               IN  [orders[o] EXCEPT !.items = items,
                      !.total_amount = SumSeq([i \in 1..Len(items) |-> items[i].total_price])]]
          /\ audit_logs' = logActivity("products", productId, "UPDATE", "", "")
  /\ UNCHANGED <<inventory, payments, txn, reqs, calls, settled, initial, stocked, notifications, insertFails>>

\* PUT /products/:id (admin) with a price in the body: SELECT the product,
\* then UPDATE products SET price = ? and the audit log.
productPut(productId, price) ==
  /\ nreq < MaxRequests
  /\ IF productId \notin DOMAIN products
     THEN UNCHANGED <<products, orders, nreq, audit_logs>>
     ELSE /\ nreq' = nreq + 1
          /\ products' = [products EXCEPT ![productId] = [@ EXCEPT !.price = price]]
          /\ orders' = orders
          /\ audit_logs' = logActivity("products", productId, "UPDATE", "", "")
  /\ UNCHANGED <<inventory, payments, txn, reqs, calls, settled, initial, stocked, notifications, insertFails>>

\* ------------------------------------------------- bulkUpdateInventory
\* The batches handed to bulkUpdateInventory: updates of A, one unit of B or
\* of a product without record, and a malformed update (no productId).
BulkUpdates ==
  LET update == {[productId |-> "A", quantityChange |-> d] : d \in 1..MaxStock + 1}
                \cup {[productId |-> p, quantityChange |-> 1] : p \in {"B", UnknownProduct, ""}}
  IN  UNION {[1..n -> update] : n \in 0..MaxLines}

\* if (!productId || quantityChange === undefined)
Malformed(update) == update.productId = ""

\* What the connection holds after a ROLLBACK: the tables as they were at
\* BEGIN when a transaction is open, the tables as they are otherwise (the
\* statement fails and its error is dropped).
RolledBack == IF txn # <<>> THEN txn[1] ELSE Snapshot

\* The statement an update of the batch is waiting for after the synchronous
\* part of the call: none for a malformed update (its ROLLBACK has run), the
\* ROLLBACK of the catch handler for an update the ledger rejects on the row
\* its SELECT read, the UPDATE with the values computed otherwise.
BulkRow(update, operation, inv) ==
  LET none == [pc |-> "malformed", error |-> "Invalid update data", inventory |-> <<>>,
               newQuantity |-> 0, newReservedQuantity |-> 0]
  IN  IF Malformed(update) THEN none
      ELSE IF update.productId \notin DOMAIN inv
      THEN [none EXCEPT !.pc = "rejected", !.error = "Inventory record not found"]
      ELSE LET r == updateInventorySwitch(inv[update.productId], update.quantityChange, operation)
           IN  IF r.error # ""
               THEN [none EXCEPT !.pc = "rejected", !.error = r.error]
               ELSE [none EXCEPT !.pc = "run", !.error = "",
                                 !.inventory = <<inv[update.productId]>>,
                                 !.newQuantity = r.newQuantity,
                                 !.newReservedQuantity = r.newReservedQuantity]

\* How the promise of bulkUpdateInventory settles.
SettleBulk(id, size, outcome, processedCount) ==
  settled \cup {[id |-> id, productId |-> "", quantityChange |-> 0, operation |-> "bulkUpdate",
                 size |-> size, outcome |-> outcome, processedCount |-> processedCount]}

\* The error the promise is rejected with ("" when no update fails): the
\* first malformed update, else the first update the ledger rejects.
BulkError(rows) ==
  LET bad(pc) == {i \in 1..Len(rows) : rows[i].pc = pc}
      first(S) == CHOOSE i \in S : \A j \in S : i <= j
  IN  IF bad("malformed") # {} THEN rows[first(bad("malformed"))].error
      ELSE IF bad("rejected") # {} THEN rows[first(bad("rejected"))].error
      ELSE ""

\* The statements of the batch have all run.
BulkDone(rows) == \A i \in 1..Len(rows) : rows[i].pc \in {"malformed", "rolledback", "done"}

\* bulkUpdateInventory(updates, operation), the synchronous part: an empty
\* batch is rejected; otherwise BEGIN TRANSACTION and, serialized behind it
\* in the order of the batch, a ROLLBACK for every malformed update and the
\* SELECT of updateInventory for every other one. The promise is rejected
\* with the first error; the updates that are neither malformed nor rejected
\* still queue their UPDATE from the callback of their SELECT.
bulkUpdateBegin(updates, operation) ==
  /\ nreq < MaxBatches /\ Cardinality(reqs) < MaxInFlight
  /\ nreq' = nreq + 1
  /\ IF Len(updates) = 0
     THEN /\ settled' = SettleBulk(nreq + 1, 0, "Updates array is required", 0)
          /\ UNCHANGED <<inventory, orders, payments, txn, reqs, stocked, notifications, audit_logs>>
     ELSE LET malformed == {i \in 1..Len(updates) : Malformed(updates[i])}
              seen(i) == IF \E j \in malformed : j < i THEN RolledBack.inventory ELSE inventory
              rows == [i \in 1..Len(updates) |-> BulkRow(updates[i], operation, seen(i))]
              after == IF malformed # {} THEN RolledBack ELSE Snapshot
          IN  /\ txn' = IF malformed # {} THEN <<>> ELSE Begin(txn)
              /\ inventory' = after.inventory
              /\ orders' = after.orders
              /\ payments' = after.payments
              /\ stocked' = after.stocked
              /\ notifications' = after.notifications
              /\ audit_logs' = after.audit_logs
              /\ settled' = IF BulkError(rows) # ""
                            THEN SettleBulk(nreq + 1, Len(updates), BulkError(rows), 0)
                            ELSE settled
              /\ reqs' = IF BulkDone(rows) THEN reqs
                         ELSE reqs \cup {[NewReq(nreq + 1, "bulkUpdate", "run") EXCEPT
                                            !.items = updates, !.status = operation,
                                            !.rows = rows]}
  /\ UNCHANGED <<products, calls, initial, insertFails>>

\* The UPDATE of one update of the batch runs with the values computed from
\* the earlier read; its promise resolves, and when every update of the batch
\* has resolved and none has failed, COMMIT runs and the batch resolves.
bulkUpdateRun(r, i) ==
  /\ r \in reqs /\ r.kind = "bulkUpdate" /\ i \in 1..Len(r.rows) /\ r.rows[i].pc = "run"
  /\ LET productId == r.items[i].productId
         rows == [r.rows EXCEPT ![i].pc = "done"]
         processedCount == r.amount + 1
         commit == processedCount = Len(r.items) /\ BulkError(r.rows) = ""
     IN  /\ inventory' = [inventory EXCEPT ![productId] =
                            [@ EXCEPT !.quantity = r.rows[i].newQuantity,
                                      !.reserved_quantity = r.rows[i].newReservedQuantity]]
         /\ stocked' = StockedBy(productId, r.rows[i].newQuantity)
         /\ notifications' = sendAlerts(r.rows[i].inventory[1], productId, r.status,
                                        r.rows[i].newQuantity)
         /\ txn' = IF commit THEN <<>> ELSE txn
         /\ settled' = IF commit THEN SettleBulk(r.id, Len(r.items), "success", processedCount)
                       ELSE settled
         /\ reqs' = IF BulkDone(rows) THEN reqs \ {r}
                    ELSE (reqs \ {r}) \cup {[r EXCEPT !.rows = rows, !.amount = processedCount]}
  /\ UNCHANGED <<products, orders, payments, calls, nreq, initial, audit_logs, insertFails>>

\* The ROLLBACK queued by the catch handler of an update the ledger rejected.
bulkUpdateCatch(r, i) ==
  /\ r \in reqs /\ r.kind = "bulkUpdate" /\ i \in 1..Len(r.rows) /\ r.rows[i].pc = "rejected"
  /\ LET rows == [r.rows EXCEPT ![i].pc = "rolledback"]
     IN  reqs' = IF BulkDone(rows) THEN reqs \ {r}
                 ELSE (reqs \ {r}) \cup {[r EXCEPT !.rows = rows]}
  /\ inventory' = RolledBack.inventory
  /\ orders' = RolledBack.orders
  /\ payments' = RolledBack.payments
  /\ stocked' = RolledBack.stocked
  /\ notifications' = RolledBack.notifications
  /\ audit_logs' = RolledBack.audit_logs
  /\ txn' = <<>>
  /\ UNCHANGED <<products, calls, settled, nreq, initial, insertFails>>

\* ------------------------------------------------------ payment gateway
\* The payment methods a caller passes (the last one is not supported).
PaymentMethods == {"credit_card", "debit_card", "paypal", "bank_transfer", "bitcoin"}

\* Card numbers: none (<<>>), or what the code looks at: whether the value is
\* a string, its length and its last four characters.
CardNumbers ==
  {<<>>, <<[isString |-> FALSE, length |-> 0, lastFour |-> ""]>>,
         <<[isString |-> TRUE, length |-> 12, lastFour |-> "1111"]>>}
  \cup {<<[isString |-> TRUE, length |-> 16, lastFour |-> l]>> :
          l \in {"0000", "0001", "0002", "0003", "0004", "1111"}}

Emails == {"", "fail@example.com", "buyer@example.com"}

\* Payment details: none at all (<<>>), or an object with a card number, the
\* other card fields (expiry, cvv, cardholder name) all given or not, an
\* email, and the bank account fields given or not.
PaymentDetails ==
  {<<>>} \cup {<<[cardNumber |-> c, cardFields |-> f, email |-> e, account |-> a]>> :
                 c \in CardNumbers, f \in BOOLEAN, e \in Emails, a \in BOOLEAN}

Thrown(message) == [threw |-> TRUE, message |-> message, isValid |-> FALSE, outcome |-> ""]

\* validatePaymentDetails: the errors found for the method; reading a field
\* of missing details throws a TypeError.
validatePaymentDetails(paymentMethod, paymentDetails) ==
  LET d == paymentDetails[1]
      cardErrors ==
        (IF d.cardNumber = <<>> \/ (d.cardNumber[1].isString /\ d.cardNumber[1].length < 13)
         THEN <<"Invalid card number">> ELSE <<>>)
        \o (IF ~d.cardFields
            THEN <<"Invalid expiry date", "Invalid CVV", "Cardholder name is required">>
            ELSE <<>>)
      errors ==
        CASE paymentMethod \in {"credit_card", "debit_card"} -> cardErrors
          [] paymentMethod = "paypal" ->
               IF d.email = "" THEN <<"PayPal email is required">> ELSE <<>>
          [] paymentMethod = "bank_transfer" ->
               IF ~d.account THEN <<"Bank account details are required">> ELSE <<>>
          [] OTHER -> <<"Unsupported payment method">>
  IN  IF paymentDetails = <<>> /\ paymentMethod \in {"credit_card", "debit_card", "paypal", "bank_transfer"}
      THEN Thrown("TypeError")
      ELSE [threw |-> FALSE, message |-> "", isValid |-> Len(errors) = 0, outcome |-> ""]

\* simulatePaymentOutcome: decided on the last four characters of the card
\* number, a random network error for card payments, and the email; slicing
\* a card number that is not a string throws a TypeError.
simulatePaymentOutcome(paymentDetails, networkError) ==
  LET d == paymentDetails[1]
      byEmail == IF d.email \in {"fail@example.com"} THEN "declined" ELSE "success"
      of(outcome) == [threw |-> FALSE, message |-> "", isValid |-> TRUE, outcome |-> outcome]
  IN  IF paymentDetails = <<>> THEN Thrown("TypeError")
      ELSE IF d.cardNumber = <<>> THEN of(byEmail)
      ELSE IF ~d.cardNumber[1].isString THEN Thrown("TypeError")
      ELSE CASE d.cardNumber[1].lastFour = "0000" -> of("declined")
             [] d.cardNumber[1].lastFour = "0001" -> of("insufficient_funds")
             [] d.cardNumber[1].lastFour = "0002" -> of("expired_card")
             [] d.cardNumber[1].lastFour = "0003" -> of("invalid_card")
             [] d.cardNumber[1].lastFour = "0004" -> of("processing_error")
             [] OTHER -> IF networkError THEN of("network_error") ELSE of(byEmail)

\* What the body of the try block of processPayment does: it returns a result
\* or throws.
processPaymentTry(paymentMethod, paymentDetails, networkError) ==
  LET validation == validatePaymentDetails(paymentMethod, paymentDetails)
      simulated == simulatePaymentOutcome(paymentDetails, networkError)
      result(status) == [raised |-> FALSE, status |-> status, transactionId |-> "txn_"]
      raise == [raised |-> TRUE, status |-> "", transactionId |-> ""]
  IN  IF validation.threw \/ ~validation.isValid THEN raise
      ELSE IF simulated.threw THEN raise
      ELSE CASE simulated.outcome = "success" -> result("success")
             [] simulated.outcome \in {"declined", "insufficient_funds",
                                        "expired_card", "invalid_card"} -> result("failed")
             [] OTHER -> raise

\* A processPayment whose catch block throws the error on to the caller.
processPaymentRethrowing(paymentMethod, paymentDetails, networkError) ==
  processPaymentTry(paymentMethod, paymentDetails, networkError)

\* processPayment: the try block, with everything thrown in it turned into a
\* failed result carrying a fresh transaction id by the catch block.
processPayment(paymentMethod, paymentDetails, networkError) ==
  LET tried == processPaymentTry(paymentMethod, paymentDetails, networkError)
  IN  IF tried.raised
      THEN [raised |-> FALSE, status |-> "failed", transactionId |-> "txn_"]
      ELSE tried

\* A caller of processPayment: the promise settles with the result, or is
\* rejected when the call raises.
callProcessPayment(paymentMethod, paymentDetails, networkError) ==
  /\ settled = {}
  /\ LET result == processPayment(paymentMethod, paymentDetails, networkError)
     IN  settled' = {[id |-> nreq + 1, operation |-> "processPayment",
                      paymentMethod |-> paymentMethod, paymentDetails |-> paymentDetails,
                      outcome |-> IF result.raised THEN "rejected" ELSE "resolved",
                      result |-> result]}
  /\ nreq' = nreq + 1
  /\ UNCHANGED <<products, inventory, orders, payments, txn, reqs, calls, initial, stocked, notifications, audit_logs, insertFails>>

\* -------------------------------------------------------- initial states
InitTables ==
  /\ products = [p \in Products |-> [price |-> IF p = "A" THEN 2 ELSE 1, is_active |-> TRUE]]
  /\ orders = <<>>
  /\ payments = <<>>
  /\ txn = <<>>
  /\ reqs = {}
  /\ calls = {}
  /\ settled = {}
  /\ notifications = EmptyBag
  /\ audit_logs = EmptyBag
  /\ nreq = 0

\* A freshly stocked shop: every product has its inventory row, nothing reserved.
Init ==
  /\ InitTables
  /\ inventory = [p \in Products |->
       [quantity |-> MaxStock, reserved_quantity |-> 0, reorder_level |-> DefaultReorderLevel]]
  /\ stocked = [p \in Products |-> MaxStock]
  /\ initial = inventory
  /\ insertFails = FALSE

\* The ledger alone: one record in any state the order flows can leave it in
\* (0 <= reserved <= quantity), with direct callers of updateInventory.
InitRecord ==
  /\ InitTables
  /\ \E q \in 0..MaxStock : \E r \in 0..q :
       /\ inventory = [p \in {"A"} |->
            [quantity |-> q, reserved_quantity |-> r, reorder_level |-> DefaultReorderLevel]]
       /\ stocked = [p \in {"A"} |-> q]
  /\ initial = inventory

InitLedger == InitRecord /\ insertFails = FALSE

\* The same with the notifications and audit_logs tables refusing every INSERT.
InitLedgerFailing == InitRecord /\ insertFails = TRUE

\* The record of the low-stock scenario: 10 units, none reserved, reorder
\* level 5.
InitScenario ==
  /\ InitTables
  /\ inventory = [p \in {"A"} |-> [quantity |-> 10, reserved_quantity |-> 0, reorder_level |-> 5]]
  /\ stocked = [p \in {"A"} |-> 10]
  /\ initial = inventory
  /\ insertFails = FALSE

NextLedger ==
  \/ \E op \in Operations : \E d \in 1..MaxItemQty :
       callUpdateInventory("A", d, op)
  \/ \E d \in 1..MaxItemQty : callUpdateInventory("A", -d, "adjust")
  \/ \E op \in Operations : callUpdateInventory(UnknownProduct, 1, op)
  \/ \E c \in calls : updateInventoryGet(c)
  \/ \E c \in calls : updateInventoryRun(c)

SpecLedger == InitLedger /\ [][NextLedger]_vars

SpecLedgerFailing == InitLedgerFailing /\ [][NextLedger]_vars

\* The calls of the scenario, 3 or 4 units each, of any kind and in any order.
NextScenario ==
  \/ \E op \in Operations : \E d \in {3, 4} : callUpdateInventory("A", d, op)
  \/ \E c \in calls : updateInventoryGet(c)
  \/ \E c \in calls : updateInventoryRun(c)

SpecScenario == InitScenario /\ [][NextScenario]_vars

\* The availability checks next to the ledger and the soft delete of a product.
NextCheck ==
  \/ \E p \in Products \cup {UnknownProduct} : \E n \in 1..MaxStock + 1 :
       callCheckInventoryAvailability(p, n)
  \/ \E items \in CheckLists : bulkCheckBegin(items)
  \/ \E r \in reqs : bulkCheckStep(r)
  \/ \E p \in Products : productDelete(p)
  \/ \E op \in {"reserve", "sell"} : callUpdateInventory("A", 1, op)
  \/ \E c \in calls : updateInventoryGet(c)
  \/ \E c \in calls : updateInventoryRun(c)

SpecCheck == Init /\ [][NextCheck]_vars

\* Order creation next to the price updates of the catalogue.
NextCatalog ==
  \/ \E items \in ItemLists : orderPostBegin(items)
  \/ \E r \in reqs : orderPostCallbacks(r)
  \/ \E p \in Products : \E price \in 1..MaxPrice : productPut(p, price)
  \/ \E c \in calls : updateInventoryGet(c)
  \/ \E c \in calls : updateInventoryRun(c)

SpecCatalog == Init /\ [][NextCatalog]_vars

\* A shop in which one order for a unit of A has been placed, confirmed by
\* the admin (its unit sold) and charged with success.
InitRefund ==
  /\ products = [p \in Products |-> [price |-> IF p = "A" THEN 2 ELSE 1, is_active |-> TRUE]]
  /\ inventory = [p \in Products |->
       [quantity |-> IF p = "A" THEN MaxStock - 1 ELSE MaxStock, reserved_quantity |-> 0,
        reorder_level |-> DefaultReorderLevel]]
  /\ orders = <<[status |-> "confirmed", payment_status |-> "paid", total_amount |-> 2,
                 items |-> <<[product_id |-> "A", quantity |-> 1,
                              unit_price |-> 2, total_price |-> 2]>>]>>
  /\ payments = <<[order_id |-> 1, amount |-> 2, status |-> "success"]>>
  /\ notifications = SetToBag({[user_id |-> Customer, type |-> t, about |-> 1] :
                                 t \in {"order_created", "order_status_updated", "payment_processed"}})
  /\ audit_logs = SetToBag({
       [table_name |-> "orders", record_id |-> 1, action |-> "INSERT",
        old_values |-> "", new_values |-> ""],
       [table_name |-> "orders", record_id |-> 1, action |-> "UPDATE",
        old_values |-> "pending", new_values |-> "confirmed"],
       [table_name |-> "payments", record_id |-> 1, action |-> "INSERT",
        old_values |-> "", new_values |-> ""]})
  /\ txn = <<>> /\ reqs = {} /\ calls = {} /\ settled = {}
  /\ nreq = 0
  /\ stocked = [p \in Products |-> MaxStock]
  /\ initial = inventory
  /\ insertFails = FALSE

\* One call of the charge operation of the gateway, with any method, any
\* details and either outcome of the random network error.
NextCharge ==
  \E m \in PaymentMethods : \E d \in PaymentDetails : \E e \in BOOLEAN :
    callProcessPayment(m, d, e)

SpecCharge == Init /\ [][NextCharge]_vars

\* Callers of bulkUpdateInventory.
NextBulk ==
  \/ \E u \in BulkUpdates : \E op \in {"reserve", "restock"} : bulkUpdateBegin(u, op)
  \/ \E r \in reqs : \E i \in 1..MaxLines : bulkUpdateRun(r, i)
  \/ \E r \in reqs : \E i \in 1..MaxLines : bulkUpdateCatch(r, i)

SpecBulk == Init /\ [][NextBulk]_vars

Next ==
  \/ \E items \in ItemLists : orderPostBegin(items)
  \/ \E r \in reqs : orderPostCallbacks(r)
  \/ \E o \in 1..MaxOrders : \E s \in validStatuses : orderStatusGet(o, s)
  \/ \E r \in reqs : orderStatusRun(r)
  \/ \E o \in 1..MaxOrders : orderCancelGet(o)
  \/ \E r \in reqs : orderCancelRun(r)
  \/ \E o \in 1..MaxOrders : paymentProcessGet(o)
  \/ \E r \in reqs : \E v \in {"success", "failed"} : paymentProcessInsert(r, v)
  \/ \E r \in reqs : paymentProcessUpdate(r)
  \/ \E p \in 1..MaxOrders : \E a \in 0..MaxRefund : paymentRefundGet(p, a)
  \/ \E r \in reqs : \E v \in {"success", "failed"} : paymentRefundInsert(r, v)
  \/ \E p \in Products : \E q \in 0..MaxStock : inventoryPut(p, q)
  \/ \E c \in calls : updateInventoryGet(c)
  \/ \E c \in calls : updateInventoryRun(c)

Spec == Init /\ [][Next]_vars

SpecRefund == InitRefund /\ [][Next]_vars

\* ------------------------------------------------------------ properties
Quiescent == reqs = {} /\ calls = {}

Available(p) == inventory[p].quantity - inventory[p].reserved_quantity

\* Units of product p in the lines of an order.
Units(items, p) ==
  SumSeq([i \in 1..Len(items) |-> IF items[i].product_id = p THEN items[i].quantity ELSE 0])

\* C1: in every reachable state every inventory record has
\* 0 <= reservedQuantity <= quantity.
ReservedWithinQuantity ==
  \A p \in DOMAIN inventory :
    /\ 0 <= inventory[p].reserved_quantity
    /\ inventory[p].reserved_quantity <= inventory[p].quantity

\* C2: for every product, the units in the items of confirmed orders never
\* exceed the units ever physically stocked.
ConfirmedUnits(p) ==
  SumSeq([o \in 1..Len(orders) |->
            IF orders[o].status = "confirmed" THEN Units(orders[o].items, p) ELSE 0])

NoDoubleSelling == \A p \in Products : ConfirmedUnits(p) <= stocked[p]

\* C3: when more one-unit reserve calls than there are available units have
\* all settled, exactly as many succeeded as units were available, the others
\* failed with "Insufficient available inventory", and reserved_quantity grew
\* by the number of successes.
Succeeded == {c \in settled : c.outcome = "success"}

OnlyUnitReserves ==
  /\ calls = {} /\ settled # {}
  /\ \A c \in settled : c.productId = "A" /\ c.operation = "reserve" /\ c.quantityChange = 1

ConcurrentReservesExact ==
  LET k == initial["A"].quantity - initial["A"].reserved_quantity
  IN  (OnlyUnitReserves /\ Cardinality(settled) > k) =>
        /\ Cardinality(Succeeded) = k
        /\ \A c \in settled \ Succeeded : c.outcome = "Insufficient available inventory"
        /\ inventory["A"].reserved_quantity
             = initial["A"].reserved_quantity + Cardinality(Succeeded)
        /\ inventory["A"].quantity = initial["A"].quantity

\* C4: once a set of concurrent ledger calls on one product has settled, the
\* record equals the result of the same calls applied one after another in
\* some order.
RECURSIVE ApplyCalls(_, _)
ApplyCalls(inv, seq) ==
  IF seq = <<>> THEN inv
  ELSE LET r == updateInventorySwitch(inv, Head(seq).quantityChange, Head(seq).operation)
       IN  ApplyCalls(IF r.error = ""
                      THEN [inv EXCEPT !.quantity = r.newQuantity,
                                       !.reserved_quantity = r.newReservedQuantity]
                      ELSE inv,
                      Tail(seq))

Orderings(S) ==
  {f \in [1..Cardinality(S) -> S] : \A i, j \in 1..Cardinality(S) : i # j => f[i] # f[j]}

LedgerSerializable ==
  (calls = {} /\ settled # {}) =>
     \E f \in Orderings({c \in settled : c.productId = "A"}) :
        ApplyCalls(initial["A"], f) = inventory["A"]

\* C5: createOrder is all-or-nothing: when only order creations have been
\* served and nothing is in flight, every persisted order has had the full
\* quantity of each of its lines added to that product's reserved_quantity.
ReservedByOrders(p) ==
  SumSeq([o \in 1..Len(orders) |-> Units(orders[o].items, p)])

CreateAllOrNothing ==
  (Quiescent /\ nreq = Len(orders)) =>
     \A p \in Products :
        inventory[p].reserved_quantity = initial[p].reserved_quantity + ReservedByOrders(p)

\* C6: an order request some item of which asks for more than the product's
\* available quantity (quantity - reserved_quantity) when the request reads
\* the stock is refused by the validation (no order, no reservation).
ExceedsAvailable(r) ==
  \E i \in 1..Len(r.items) :
     /\ r.items[i].productId \in DOMAIN inventory
     /\ r.items[i].quantity > Available(r.items[i].productId)

CreateFailsOnInsufficientAvailable ==
  [][\A r \in reqs' \ reqs :
        (r.kind = "post" /\ ExceedsAvailable(r)) =>
           \E i \in 1..Len(r.items) : ItemError(r, i) # ""]_vars

\* C7: after one order within stock has been created and its charge has
\* succeeded (and nothing is in flight), the order is confirmed and for each
\* product the quantity has gone down by the order's units and nothing stays
\* reserved.
CreatedAndCharged ==
  /\ Quiescent /\ nreq = 2
  /\ Len(orders) = 1 /\ Len(payments) = 1 /\ payments[1].status = "success"
  /\ \A p \in Products : Units(orders[1].items, p) <= initial[p].quantity

ChargeConvertsReservation ==
  CreatedAndCharged =>
     /\ orders[1].status = "confirmed"
     /\ \A p \in Products :
          /\ inventory[p].quantity = initial[p].quantity - Units(orders[1].items, p)
          /\ inventory[p].reserved_quantity = 0

\* C8: the cancel route goes on only for an order it finds pending (a cancel
\* call on an order already cancelled writes nothing); its UPDATE sets the
\* status to cancelled and touches no inventory record; and each release it
\* issues for a line of n units, written on the record as it was read with
\* at least n units reserved, lowers reserved_quantity by n and leaves
\* quantity as it is.
CancelReleasesReservation ==
  [][/\ \A r \in reqs' \ reqs :
          r.kind = "cancel" => /\ r.orderId \in 1..Len(orders)
                               /\ orders[r.orderId].status = "pending"
     /\ \A r \in reqs \ reqs' :
          (r.kind = "cancel" /\ r.orderId \in 1..Len(orders)) =>
             /\ orders'[r.orderId].status = "cancelled"
             /\ orders'[r.orderId].items = orders[r.orderId].items
             /\ inventory' = inventory
             /\ \A i \in 1..Len(orders[r.orderId].items) :
                  \E c \in calls' \ calls :
                     /\ c.operation = "release" /\ c.idx = i
                     /\ c.productId = orders[r.orderId].items[i].product_id
                     /\ c.quantityChange = orders[r.orderId].items[i].quantity
     /\ \A c \in calls \ calls' :
          (/\ c.route = "cancel" /\ c.pc = "run"
           /\ c.inventory[1] = inventory[c.productId]
           /\ inventory[c.productId].reserved_quantity >= c.quantityChange) =>
             /\ inventory'[c.productId].reserved_quantity
                  = inventory[c.productId].reserved_quantity - c.quantityChange
             /\ inventory'[c.productId].quantity = inventory[c.productId].quantity
             /\ \A p \in DOMAIN inventory \ {c.productId} : inventory'[p] = inventory[p]
    ]_vars

\* A cancelled order whose release has read the record with the reservation
\* on it and is about to be written, while a further cancel call on the same
\* order would be refused.
CancelReleaseWitness ==
  \E c \in calls : \E o \in 1..Len(orders) :
     /\ c.route = "cancel" /\ c.operation = "release" /\ c.pc = "run"
     /\ c.inventory[1] = inventory[c.productId]
     /\ inventory[c.productId].reserved_quantity >= c.quantityChange
     /\ c.quantityChange > 1
     /\ orders[o].status = "cancelled"
     /\ orders[o].items[c.idx].product_id = c.productId
     /\ orderCancelRefusal(o) = "Only pending orders can be cancelled"

\* C9: the status of an order only changes along pending -> confirmed ->
\* processing -> shipped -> delivered or from a non-terminal status to
\* cancelled.
LegalTransition(from, to) ==
  \/ <<from, to>> \in {<<"pending", "confirmed">>, <<"confirmed", "processing">>,
                       <<"processing", "shipped">>, <<"shipped", "delivered">>}
  \/ to = "cancelled" /\ from \in {"pending", "confirmed", "processing", "shipped"}

OnlyLegalTransitions ==
  [][\A o \in 1..Len(orders) :
        o \in 1..Len(orders') =>
           \/ orders'[o].status = orders[o].status
           \/ LegalTransition(orders[o].status, orders'[o].status)]_vars

\* C10: a release issued by the admin status route for an order it read
\* as confirmed, processing or shipped changes no reserved_quantity.
CancelOfSoldOrderKeepsReserved ==
  [][\A c \in calls \ calls' :
        (/\ c.route = "status" /\ c.operation = "release" /\ c.pc = "run"
         /\ c.orderStatus \in {"confirmed", "processing", "shipped"}) =>
           \A p \in DOMAIN inventory :
              inventory'[p].reserved_quantity = inventory[p].reserved_quantity]_vars

\* C11: reserved stock never leaks: in every state with nothing in flight
\* (reserved_quantity being written by the order flows only) each product's
\* reserved_quantity equals the units of that product in the orders whose
\* status is pending.
PendingUnits(p) ==
  SumSeq([o \in 1..Len(orders) |->
            IF orders[o].status = "pending" THEN Units(orders[o].items, p) ELSE 0])

\* Only order creations and charges have been served, and the orders created
\* ask for no more than the stock there is.
OnlyCreationsAndCharges ==
  /\ nreq = Len(orders) + Cardinality({i \in 1..Len(payments) : payments[i].amount > 0})
  /\ \A p \in Products : ReservedByOrders(p) <= initial[p].quantity

NoReservationLeak ==
  (Quiescent /\ OnlyCreationsAndCharges) =>
     \A p \in Products : inventory[p].reserved_quantity = PendingUnits(p)

\* C12: an admin status update to the status the order already has is a
\* no-op: the order stays as it is, no ledger call is issued and no further
\* notification is sent.
SameStatusIsNoOp ==
  [][\A r \in reqs \ reqs' :
        (/\ r.kind = "status"
         /\ r.status = r.order[1].status
         /\ orders[r.orderId].status = r.status) =>
           /\ orders' = orders
           /\ calls' = calls
           /\ notifications' = notifications]_vars

\* C13: a failed charge written on a pending order leaves the order pending
\* with payment_status failed, changes no inventory record and issues no
\* ledger call (no release, no sell).
FailedChargeKeepsReservation ==
  [][\A r \in reqs \ reqs' :
        (/\ r.kind = "process" /\ r.pc = "update" /\ r.verdict = "failed"
         /\ r.orderId \in 1..Len(orders)
         /\ orders[r.orderId].status = "pending") =>
           /\ orders'[r.orderId].status = "pending"
           /\ orders'[r.orderId].payment_status = "failed"
           /\ orders'[r.orderId].items = orders[r.orderId].items
           /\ inventory' = inventory
           /\ calls' = calls]_vars

\* An order whose charge failed: still pending, payment failed, its units
\* still reserved.
FailedChargeWitness ==
  /\ Quiescent
  /\ \E o \in 1..Len(orders) : \E i \in 1..Len(payments) :
       /\ payments[i].order_id = o /\ payments[i].status = "failed"
       /\ orders[o].status = "pending" /\ orders[o].payment_status = "failed"
       /\ \A p \in Products :
            /\ inventory[p].reserved_quantity = Units(orders[o].items, p)
            /\ inventory[p].quantity = initial[p].quantity
       /\ \E p \in Products : Units(orders[o].items, p) > 0

\* C14: after a failed charge the payment can be retried: a further charge
\* request for the order, still pending, is accepted.
ChargeFailed(o) ==
  /\ orders[o].status = "pending"
  /\ orders[o].payment_status = "failed"
  /\ \E i \in 1..Len(payments) : payments[i].order_id = o /\ payments[i].status = "failed"
  /\ \A r \in reqs : r.orderId # o

RetryAfterFailedCharge ==
  \A o \in 1..Len(orders) : ChargeFailed(o) => paymentProcessRefusal(o) = ""

\* C15: a refund of the full amount sets the original payment to refunded
\* and the order to cancelled / refunded, and issues a release for every
\* order item whose units are not sold yet (here: no unit of the product has
\* left the stock and the item's units are still reserved).
IsFullRefund(r) ==
  /\ r.kind = "refund" /\ r.pc = "gateway"
  /\ r.paymentId \in 1..Len(payments)
  /\ r.amount = payments[r.paymentId].amount
  /\ payments[r.paymentId].order_id \in 1..Len(orders)

NotYetSold(item) ==
  /\ inventory[item.product_id].quantity = initial[item.product_id].quantity
  /\ inventory[item.product_id].reserved_quantity >= item.quantity

FullRefundCancelsAndReleases ==
  [][\A r \in reqs \ reqs' :
        IsFullRefund(r) =>
          LET o == payments[r.paymentId].order_id
          IN  /\ payments'[r.paymentId].status = "refunded"
              /\ orders'[o].status = "cancelled"
              /\ orders'[o].payment_status = "refunded"
              /\ \A i \in 1..Len(orders[o].items) :
                   NotYetSold(orders[o].items[i]) =>
                     \E c \in calls' \ calls :
                        /\ c.operation = "release"
                        /\ c.productId = orders[o].items[i].product_id
                        /\ Abs(c.quantityChange) = orders[o].items[i].quantity]_vars

\* C16: every order has at most one successful charge, also when two charge
\* requests for it are in flight together.
SuccessfulCharges(o) ==
  {i \in 1..Len(payments) :
     payments[i].order_id = o /\ payments[i].amount > 0 /\ payments[i].status = "success"}

AtMostOneSuccessfulCharge ==
  \A o \in 1..Len(orders) : Cardinality(SuccessfulCharges(o)) <= 1

\* ------------------------------------------- the ledger's operations
\* The two steps of a call c taken in this step: its read, after which it is
\* either accepted (its UPDATE is queued, nothing settled or written yet) or
\* rejected with an error (nothing written); and its write on the row as it
\* was read.
ReadBy(c) == c \in calls /\ c \notin calls' /\ c.pc = "get" /\ c.productId \in DOMAIN inventory

Accepted(c) ==
  /\ \E d \in calls' \ calls : d.id = c.id /\ d.pc = "run" /\ calls' = (calls \ {c}) \cup {d}
  /\ settled' = settled
  /\ inventory' = inventory

RejectedWith(c, error) ==
  /\ calls' = calls \ {c}
  /\ settled' = settled \cup {[id |-> c.id, productId |-> c.productId,
                               quantityChange |-> c.quantityChange,
                               operation |-> c.operation, outcome |-> error]}
  /\ inventory' = inventory

WrittenBy(c) ==
  /\ c \in calls /\ c \notin calls' /\ c.pc = "run"
  /\ c.inventory[1] = inventory[c.productId]

Writes(c, newQuantity, newReservedQuantity) ==
  /\ inventory'[c.productId].quantity = newQuantity
  /\ inventory'[c.productId].reserved_quantity = newReservedQuantity
  /\ \E o \in settled' \ settled : o.id = c.id /\ o.outcome = "success"

SettledAs(operation, outcome) ==
  {o \in settled : o.operation = operation /\ o.outcome = outcome}

\* C17: reserve(P, n) is accepted if and only if quantity - reserved_quantity
\* >= n; accepted, it adds n to reserved_quantity and leaves quantity; else
\* it is rejected with "Insufficient available inventory" and writes nothing.
ReserveContract ==
  [][\A c \in calls :
       c.operation = "reserve" =>
         LET inv == inventory[c.productId]
             n == Abs(c.quantityChange)
         IN  /\ ReadBy(c) =>
                  IF inv.quantity - inv.reserved_quantity >= n
                  THEN Accepted(c)
                  ELSE RejectedWith(c, "Insufficient available inventory")
             /\ WrittenBy(c) => Writes(c, inv.quantity, inv.reserved_quantity + n)]_vars

\* One reserve went through and one was rejected, nothing else was called.
ReserveWitness ==
  /\ calls = {} /\ Cardinality(settled) = 2
  /\ \E o \in SettledAs("reserve", "success") :
       /\ inventory["A"].reserved_quantity = initial["A"].reserved_quantity + o.quantityChange
       /\ inventory["A"].quantity = initial["A"].quantity
  /\ SettledAs("reserve", "Insufficient available inventory") # {}

\* C18: sell(P, n) lowers quantity by n and reserved_quantity by
\* min(reserved_quantity, n); it is rejected with "Insufficient inventory to
\* sell", writing nothing, if and only if n > quantity.
SellContract ==
  [][\A c \in calls :
       c.operation = "sell" =>
         LET inv == inventory[c.productId]
             n == Abs(c.quantityChange)
         IN  /\ ReadBy(c) =>
                  IF n > inv.quantity
                  THEN RejectedWith(c, "Insufficient inventory to sell")
                  ELSE Accepted(c)
             /\ WrittenBy(c) =>
                  Writes(c, inv.quantity - n,
                         inv.reserved_quantity - Min(inv.reserved_quantity, n))]_vars

\* A sell of more units than were reserved went through (the reserved units
\* and some unreserved ones are gone) and another sell was rejected.
SellWitness ==
  /\ calls = {} /\ Cardinality(settled) = 2
  /\ \E o \in SettledAs("sell", "success") :
       /\ initial["A"].reserved_quantity > 0
       /\ o.quantityChange > initial["A"].reserved_quantity
       /\ inventory["A"].quantity = initial["A"].quantity - o.quantityChange
       /\ inventory["A"].reserved_quantity = 0
  /\ SettledAs("sell", "Insufficient inventory to sell") # {}

\* C19: release(P, n) on an existing record is never rejected: it sets
\* reserved_quantity to max(0, reserved_quantity - n) and leaves quantity.
ReleaseContract ==
  [][\A c \in calls :
       c.operation = "release" =>
         LET inv == inventory[c.productId]
             n == Abs(c.quantityChange)
         IN  /\ ReadBy(c) => Accepted(c)
             /\ WrittenBy(c) =>
                  Writes(c, inv.quantity, Max(0, inv.reserved_quantity - n))]_vars

\* A release of more units than were reserved went through and left 0.
ReleaseWitness ==
  /\ calls = {} /\ Cardinality(settled) = 1
  /\ \E o \in SettledAs("release", "success") :
       /\ initial["A"].reserved_quantity > 0
       /\ o.quantityChange > initial["A"].reserved_quantity
       /\ inventory["A"].reserved_quantity = 0
       /\ inventory["A"].quantity = initial["A"].quantity

\* C20: adjust(P, d) with signed d sets quantity to quantity + d and leaves
\* reserved_quantity; it is rejected with "Adjustment would result in
\* negative inventory", writing nothing, if and only if quantity + d < 0.
AdjustContract ==
  [][\A c \in calls :
       c.operation = "adjust" =>
         LET inv == inventory[c.productId]
             d == c.quantityChange
         IN  /\ ReadBy(c) =>
                  IF inv.quantity + d < 0
                  THEN RejectedWith(c, "Adjustment would result in negative inventory")
                  ELSE Accepted(c)
             /\ WrittenBy(c) => Writes(c, inv.quantity + d, inv.reserved_quantity)]_vars

\* A negative adjust went through and a further one was rejected.
AdjustWitness ==
  /\ calls = {} /\ Cardinality(settled) = 2
  /\ \E o \in SettledAs("adjust", "success") :
       /\ o.quantityChange < 0
       /\ inventory["A"].quantity = initial["A"].quantity + o.quantityChange
       /\ inventory["A"].reserved_quantity = initial["A"].reserved_quantity
  /\ SettledAs("adjust", "Adjustment would result in negative inventory") # {}

\* C21: reserve(P, n) with available >= n followed by release(P, n), nothing
\* else touching P in between, puts reserved_quantity back to what it was
\* before the reserve; quantity is the same before, between and after.
AfterReserveOnly(o) ==
  /\ settled = {o}
  /\ o.operation = "reserve" /\ o.outcome = "success" /\ o.productId = "A"
  /\ inventory["A"].reserved_quantity = initial["A"].reserved_quantity + o.quantityChange
  /\ inventory["A"].quantity = initial["A"].quantity

ReserveReleaseRoundTrip ==
  [][\A c \in calls : \A o \in settled :
        (/\ c.operation = "release" /\ c.productId = "A"
         /\ calls = {c} /\ WrittenBy(c)
         /\ AfterReserveOnly(o)
         /\ c.quantityChange = o.quantityChange) =>
           /\ inventory'["A"].reserved_quantity = initial["A"].reserved_quantity
           /\ inventory'["A"].quantity = initial["A"].quantity]_vars

\* A reserve on a record with units already reserved, then the release of
\* the same number of units, both settled: the record is as it was.
RoundTripWitness ==
  /\ calls = {} /\ Cardinality(settled) = 2
  /\ initial["A"].reserved_quantity > 0
  /\ \E o \in SettledAs("reserve", "success") : \E c \in SettledAs("release", "success") :
       /\ o.id < c.id /\ o.quantityChange = c.quantityChange
       /\ inventory["A"] = initial["A"]

\* C22: a ledger call of any kind on a product id that has no inventory
\* record is rejected with "Inventory record not found", changes no
\* inventory record and sends no notification.
NoRecordIsRejected ==
  [][\A c \in calls \ calls' :
        c.productId \notin DOMAIN inventory =>
          /\ RejectedWith(c, "Inventory record not found")
          /\ notifications' = notifications]_vars

\* Calls of two different kinds on the unknown product id have been rejected.
NoRecordWitness ==
  /\ calls = {}
  /\ \E o1, o2 \in settled :
       /\ o1.productId = UnknownProduct /\ o2.productId = UnknownProduct
       /\ o1.operation = "release" /\ o2.operation = "restock"
       /\ o1.outcome = "Inventory record not found"
       /\ o2.outcome = "Inventory record not found"
  /\ inventory = initial
  /\ notifications = EmptyBag
  /\ audit_logs = EmptyBag

\* ---------------------------------------------------------- stock alerts
Alert(type, productId) == [user_id |-> Admin, type |-> type, about |-> productId]

AlertsSent(type) == CopiesIn(Alert(type, "A"), notifications)

\* C23: from {quantity 10, reserved 0, reorder level 5}, reserve(P, 4) sends
\* no low-stock alert and the reserve(P, 3) after it (available 3 <= 5) sends
\* the low-stock alert exactly once.
ReservedInScenario(ns) ==
  /\ calls = {}
  /\ Cardinality(settled) = Len(ns)
  /\ \A i \in 1..Len(ns) :
       \E o \in SettledAs("reserve", "success") : o.id = i /\ o.quantityChange = ns[i]
  /\ inventory["A"].reserved_quantity = SumSeq(ns)

LowStockScenario ==
  /\ ReservedInScenario(<<4>>) => AlertsSent("low_stock_alert") = 0
  /\ ReservedInScenario(<<4, 3>>) => AlertsSent("low_stock_alert") = 1

\* C24: a ledger call that writes sends the low-stock alert if and only if
\* the quantity went from above the reorder level to at or below it, the
\* out-of-stock alert if and only if it went from above 0 to 0, and the
\* restock alert if and only if the call is a restock and the quantity was at
\* or below the reorder level; a rejected call sends nothing.
AlertsDue(operation, level, previous, new) ==
  {t \in {"low_stock_alert", "out_of_stock_alert", "restock_alert"} :
     \/ t = "low_stock_alert" /\ previous > level /\ new <= level
     \/ t = "out_of_stock_alert" /\ previous > 0 /\ new = 0
     \/ t = "restock_alert" /\ operation = "restock" /\ previous <= level}

StockAlertsContract ==
  [][\A c \in calls \ calls' :
        c.productId \in DOMAIN inventory =>
          /\ (c.pc = "get") => notifications' = notifications
          /\ WrittenBy(c) =>
               notifications' = notifications (+)
                  SetToBag({Alert(t, c.productId) :
                              t \in AlertsDue(c.operation,
                                              inventory[c.productId].reorder_level,
                                              inventory[c.productId].quantity,
                                              inventory'[c.productId].quantity)})]_vars

\* The stock was sold out in one call (low-stock and out-of-stock alerts)
\* and restocked by the next (restock alert).
StockAlertsWitness ==
  /\ calls = {} /\ Cardinality(settled) = 2
  /\ SettledAs("sell", "success") # {} /\ SettledAs("restock", "success") # {}
  /\ AlertsSent("low_stock_alert") = 1
  /\ AlertsSent("out_of_stock_alert") = 1
  /\ AlertsSent("restock_alert") = 1

\* C25: when the INSERTs of the notification and audit collaborators fail,
\* a ledger call that writes still reports success and the quantity and
\* reserved_quantity it computed are committed; nothing puts them back.
CollaboratorFailureIsIgnored ==
  [][/\ \A c \in calls \ calls' :
          (insertFails /\ c.pc = "run") =>
             /\ Writes(c, c.newQuantity, c.newReservedQuantity)
             /\ notifications' = notifications
             /\ audit_logs' = audit_logs
     /\ inventory' # inventory => \E c \in calls \ calls' : c.pc = "run"]_vars

\* With the collaborators failing, a sell has emptied the stock: the alerts
\* and the audit entry it was due are missing, the call reported success.
CollaboratorFailureWitness ==
  /\ insertFails
  /\ calls = {} /\ Cardinality(settled) = 1
  /\ SettledAs("sell", "success") # {}
  /\ initial["A"].quantity > 0 /\ inventory["A"].quantity = 0
  /\ notifications = EmptyBag /\ audit_logs = EmptyBag

\* C26: an availability check changes no record and never fails for a
\* business-negative outcome: it resolves with "Product not found" when the
\* product has no inventory record, "Product is not active" when the product
\* is inactive, "Insufficient stock" when quantity - reserved is below the
\* request, and with available = TRUE exactly when the product is active and
\* quantity - reserved covers the request; the batch form resolves with
\* allAvailable = TRUE exactly when every item is available.
ExpectedReason(productId, requestedQuantity) ==
  IF productId \notin DOMAIN inventory THEN "Product not found"
  ELSE IF ~products[productId].is_active THEN "Product is not active"
  ELSE IF Available(productId) < requestedQuantity THEN "Insufficient stock"
  ELSE ""

ChecksResolved(S, operation) == {s \in S : s.operation = operation /\ s.outcome = "resolved"}

CheckContract ==
  [][/\ \A s \in settled' \ settled :
          /\ s.operation = "check" =>
               /\ s.outcome = "resolved"
               /\ s.result[1].reason = ExpectedReason(s.productId, s.quantityChange)
               /\ s.result[1].available <=>
                    /\ s.productId \in DOMAIN inventory
                    /\ products[s.productId].is_active
                    /\ Available(s.productId) >= s.quantityChange
          /\ s.operation = "bulkCheck" /\ s.outcome = "resolved" =>
               /\ s.result[1].allAvailable <=>
                    \A i \in 1..Len(s.result[1].results) : s.result[1].results[i].available
               /\ LET x == s.result[1].results[Len(s.result[1].results)]
                  IN  /\ x.reason = ExpectedReason(x.productId, x.requestedQuantity)
                      /\ x.available <=> x.reason = ""
          /\ s.operation \in {"check", "bulkCheck"} =>
               UNCHANGED <<products, inventory, orders, payments, notifications, audit_logs>>
     /\ \A r \in reqs : \A t \in reqs' :
          r.kind = "bulkCheck" /\ t.id = r.id /\ t # r =>
            /\ UNCHANGED <<products, inventory, orders, payments, notifications, audit_logs>>
            /\ LET x == t.rows[Len(t.rows)]
               IN  /\ x.reason = ExpectedReason(x.productId, x.requestedQuantity)
                   /\ x.available <=> x.reason = ""]_vars

CheckWitness ==
  /\ \E s \in ChecksResolved(settled, "check") : s.result[1].reason = "Insufficient stock"
  /\ \E s \in ChecksResolved(settled, "bulkCheck") :
       /\ ~s.result[1].allAvailable
       /\ \E i \in 1..Len(s.result[1].results) : s.result[1].results[i].available
       /\ \E i \in 1..Len(s.result[1].results) :
            s.result[1].results[i].reason = "Product is not active"

\* C27: the total amount of an order is the sum over its items of unit price
\* times quantity, every item stores the unit price read when the order was
\* created and its line total, and a later change of a product's price
\* changes neither the items nor the total of an order already placed.
TotalsAdd(o) ==
  /\ \A i \in 1..Len(o.items) :
       o.items[i].total_price = o.items[i].unit_price * o.items[i].quantity
  /\ o.total_amount = SumSeq([i \in 1..Len(o.items) |-> o.items[i].unit_price * o.items[i].quantity])

OrderTotalsFixedAtCreation ==
  [][/\ \A o \in 1..Len(orders') : TotalsAdd(orders'[o])
     /\ products' # products => orders' = orders
     /\ \A r \in reqs' \ reqs : r.kind = "post" =>
          \A i \in 1..Len(r.items) : r.rows[i] # <<>> =>
            r.rows[i][1].price = products[r.items[i].productId].price
     /\ Len(orders') = Len(orders) + 1 =>
          \E r \in reqs \ reqs' :
            \A i \in 1..Len(r.items) :
              orders'[Len(orders')].items[i].unit_price = r.rows[i][1].price]_vars

PriceChangedAfterOrder ==
  \E o \in 1..Len(orders) : \E i \in 1..Len(orders[o].items) :
    /\ orders[o].items[i].quantity > 1
    /\ orders[o].items[i].unit_price # products[orders[o].items[i].product_id].price
    /\ Len(orders[o].items) > 1

\* C28: once an order is created, no step of the admin status update, the
\* cancel, the charge or the refund adds, removes or modifies any of its
\* items or changes its total amount (only status and payment status change).
OrderOperations == {"status", "cancel", "process", "refund"}

ItemsAndTotalImmutable ==
  [][(\E r \in (reqs \ reqs') \cup (reqs' \ reqs) : r.kind \in OrderOperations) =>
       /\ Len(orders') = Len(orders)
       /\ \A o \in 1..Len(orders) :
            /\ orders'[o].items = orders[o].items
            /\ orders'[o].total_amount = orders[o].total_amount]_vars

RefundedOrderKeepsItems ==
  \E o \in 1..Len(orders) :
    /\ orders[o].status = "cancelled" /\ orders[o].payment_status = "refunded"
    /\ Len(orders[o].items) > 0 /\ orders[o].total_amount > 0

\* C29: every step of the admin status update, the customer cancel, the
\* charge or the refund that changes the status of an order adds an audit
\* entry for that order carrying the status before and the status after, and
\* a notification to the customer about that order.
StatusEntries(bag, orderId, before, after) ==
  LET S == {e \in BagToSet(bag) : /\ e.table_name = "orders" /\ e.record_id = orderId
                                  /\ e.old_values = before /\ e.new_values = after}
  IN  BagCardinality([e \in S |-> bag[e]])

CustomerNotifications(bag, orderId) ==
  LET S == {e \in BagToSet(bag) : e.user_id = Customer /\ e.about = orderId}
  IN  BagCardinality([e \in S |-> bag[e]])

StatusTransitionsLoggedAndNotified ==
  [][(\E r \in reqs \ reqs' : r.kind \in OrderOperations) =>
       \A o \in 1..Min(Len(orders), Len(orders')) :
         orders'[o].status # orders[o].status =>
           /\ StatusEntries(audit_logs', o, orders[o].status, orders'[o].status)
                > StatusEntries(audit_logs, o, orders[o].status, orders'[o].status)
           /\ CustomerNotifications(notifications', o) > CustomerNotifications(notifications, o)]_vars

\* C30: no step of the refund route changes the inventory or issues a ledger
\* call, so it never increases a product's quantity: the quantity an order's
\* sale decremented stays decremented after a full or a partial refund.
RefundNeverRestocks ==
  [][(\E r \in (reqs \ reqs') \cup (reqs' \ reqs) : r.kind = "refund") =>
       /\ \A p \in DOMAIN inventory : inventory'[p].quantity <= inventory[p].quantity
       /\ inventory' = inventory
       /\ calls' = calls]_vars

SoldOrderRefunded ==
  /\ Quiescent
  /\ orders[1].status = "cancelled" /\ orders[1].payment_status = "refunded"
  /\ \E i \in 1..Len(payments) : payments[i].status = "refunded" /\ payments[i].amount = -1
  /\ \E i \in 1..Len(payments) : payments[i].status = "refunded" /\ payments[i].amount = -2
  /\ inventory["A"].quantity = initial["A"].quantity
  /\ initial["A"].quantity < stocked["A"]

\* C31: the charge operation never raises to its caller: for every payment
\* method and payment details (unsupported method, invalid or missing
\* details, gateway processing and network errors included) it returns a
\* result whose status is success or failed, with a transaction id.
ChargeNeverRaises ==
  \A s \in settled : s.operation = "processPayment" =>
    /\ s.outcome = "resolved"
    /\ s.result.status \in {"success", "failed"}
    /\ s.result.transactionId # ""

ChargeErrorsReturned ==
  \E s \in settled :
    /\ s.operation = "processPayment" /\ s.result.status = "failed"
    /\ s.paymentMethod = "credit_card" /\ s.paymentDetails # <<>>
    /\ s.paymentDetails[1].cardNumber # <<>>
    /\ s.paymentDetails[1].cardNumber[1].lastFour = "0004"
    /\ s.paymentDetails[1].cardFields

\* C32: the result of a charge is applied only to an order whose status is
\* pending when the result is written: the step that writes it leaves an
\* order that is not pending at that moment as it is (a cancelled order is
\* neither confirmed and paid nor moved back to pending).
ChargeAppliedOnlyToPending ==
  [][\A r \in reqs \ reqs' :
       /\ r.kind = "process" /\ r.pc = "update"
       /\ r.orderId \in 1..Len(orders) /\ orders[r.orderId].status # "pending"
       => /\ r.orderId \in 1..Len(orders')
          /\ orders'[r.orderId].status = orders[r.orderId].status
          /\ orders'[r.orderId].payment_status = orders[r.orderId].payment_status]_vars

\* C33: over the life of an order the release effect is applied to its items
\* at most once and the sell effect at most once: a step of the status or the
\* cancel route issues release (sell) calls for an order only if no earlier
\* step has issued release (sell) calls for it. The earlier steps are read
\* off the audit log: a step issues release calls exactly when its entry goes
\* from a status other than cancelled to cancelled, and sell calls exactly
\* when its entry goes from pending to confirmed.
EffectEntries(orderId, operation) ==
  LET S == {e \in BagToSet(audit_logs) :
              /\ e.table_name = "orders" /\ e.record_id = orderId /\ e.action = "UPDATE"
              /\ IF operation = "release"
                 THEN e.new_values = "cancelled" /\ e.old_values # "cancelled"
                 ELSE e.new_values = "confirmed" /\ e.old_values = "pending"}
  IN  BagCardinality([e \in S |-> audit_logs[e]])

ReleaseAndSellAtMostOnce ==
  [][\A r \in reqs \ reqs' : \A c \in calls' \ calls :
       c.id = r.id /\ c.route \in {"status", "cancel"} /\ c.operation \in {"release", "sell"}
       => EffectEntries(r.orderId, c.operation) = 0]_vars

\* C34: for every order, the amounts of the refund rows recorded against its
\* successful charges never add up to more than the amounts charged.
Charged(o) ==
  SumSeq([i \in 1..Len(payments) |->
            IF payments[i].order_id = o /\ payments[i].amount > 0
               /\ payments[i].status \in {"success", "refunded"}
            THEN payments[i].amount ELSE 0])

Refunded(o) ==
  SumSeq([i \in 1..Len(payments) |->
            IF payments[i].order_id = o /\ payments[i].amount < 0
               /\ payments[i].status = "refunded"
            THEN -payments[i].amount ELSE 0])

RefundsWithinCharge ==
  \A o \in 1..Len(orders) : Refunded(o) <= Charged(o)

\* C35: when the gateway's refund verdict is failed, the step that follows the
\* verdict records no payment row with status refunded and leaves the original
\* payment's status and the order's status and payment status unchanged.
FailedRefundRecordsNothing ==
  [][\A r \in reqs : paymentRefundInsert(r, "failed") =>
       /\ \A i \in 1..Len(payments') :
            payments'[i].status = "refunded" =>
              i \in 1..Len(payments) /\ payments[i].status = "refunded"
       /\ orders' = orders]_vars

\* C36: the ROLLBACK of a failing order creation (which has written nothing
\* itself) discards nothing that another request has written: the step
\* leaves the orders, the payments and the inventory as they are.
RollbackDiscardsNothing ==
  [][\A r \in reqs \ reqs' :
       r.kind = "post" /\ (\E i \in 1..Len(r.items) : ItemError(r, i) # "")
       => /\ orders' = orders
          /\ payments' = payments
          /\ inventory' = inventory]_vars

\* C37: bulkUpdateInventory is atomic. Stated for a batch that runs alone:
\* once its statements have all run, a batch that was rejected has left every
\* inventory record as it was, and a batch whose updates all succeeded has
\* resolved once, with processedCount equal to the size of the batch.
BulkAtomic ==
  nreq = 1 /\ reqs = {} =>
    \A s \in settled : s.operation = "bulkUpdate" =>
      /\ s.outcome # "success" => inventory = initial
      /\ s.outcome = "success" => s.processedCount = s.size

\* C38: every createOrder request produces exactly one response and at most
\* one ROLLBACK, whatever its item list (lists with two or more failing items
\* included).
OneResponseOneRollback ==
  \A s \in settled : s.operation = "createOrder" =>
    s.responses = 1 /\ s.rollbacks <= 1

====
